---- MODULE Spec2Model ----
(***************************************************************************)
(* A model of the supabase-community/e2e Playwright suite: the             *)
(* 'authenticate' setup test, the declared test groups and standalone      *)
(* tests with their skip guards, steps and afterAll hooks as the           *)
(* Playwright runner executes them, and the branch-status poll loop.       *)
(*                                                                         *)
(* One run dispatches the setup test and then one group (a file or a test  *)
(* selected on the command line).  The external services (the dashboard    *)
(* and the Management API) answer nondeterministically.                    *)
(*                                                                         *)
(* Spec         the setup test and one dispatched group                    *)
(* SpecPoll     the body of 'Wait for branch to become active'             *)
(* SpecPool     the groups of the API files taken by a pool of workers     *)
(* SpecRollback the body of a rollback test on its own                     *)
(* SpecRetry    a migration test with retries of failed tests              *)
(* SpecBodies   the test bodies of a group with shared variables, in       *)
(*              declaration order                                          *)
(***************************************************************************)
EXTENDS Integers, Sequences, FiniteSets, TLC

\* ---------------------------------------------------------------- bounds

\* Longest page URL, in segments, the dashboard is taken to navigate to.
MaxUrlLen == 4

\* Most navigations of the page while 'authenticate' waits for the URL.
MaxNav == 2

\* ------------------------------------------------------ program constants

\* query.spec.ts:255  const maxAttempts = 60
maxAttempts == 60

\* ------------------------------------------------------------ environment

Keys ==
  { "SUPABASE_BASE_URL", "SUPABASE_BASE_API_URL", "SUPABASE_ORG_REF",
    "SUPABASE_PROJECT_REF", "SUPABASE_ACCESS_TOKEN" }

\* --------------------------------------------------- the declared groups

\* Every test.describe, test.describe.serial, test and test.skip the test
\* files declare at top level, apart from the setup test.
Groups ==
  { "LaunchProjectOrg",          \* unnamed/part_000:6   test
    "ProjectCreationUI",         \* unnamed/part_001:32  test.describe
    "TableEditorUI",             \* unnamed/part_002:32  test.describe
    "OrganizationDashboardUI",   \* unnamed/part_003:32  test.describe
    "LaunchProjectOrgs",         \* unnamed/part_004:6   test
    "TableEditorVisible",        \* unnamed/part_004:20  test
    "SqlEditorUI",               \* sql-editor.spec.ts:32 test.describe
    "SqlEditorVisible",          \* sql-editor.spec.ts:71 test
    "HealthCheckUngated",        \* api-database-health.spec.ts:6 test
    "HealthCheckGated",          \* api/database-healthcheck.spec.ts:21 test
    "DatabaseQueryAPI",          \* query.spec.ts:33  test.describe
    "BranchDatabaseLifecycle",   \* query.spec.ts:123 test.skip
    "AuthConfigAPI",             \* auth/config.spec.ts:34 test.describe.serial
    "BackupRecoveryLifecycle",   \* paas-lifecycle.spec.ts:42 test.describe
    "DatabaseRollback" }         \* unnamed/part_005:39 test.describe.serial

\* How the group is declared: "serial" (test.describe.serial), "describe"
\* (test.describe) or "test" (a test of its own, test or test.skip).
Kind(g) ==
  CASE g \in {"AuthConfigAPI", "DatabaseRollback"} -> "serial"
    [] g \in {"ProjectCreationUI", "TableEditorUI", "OrganizationDashboardUI",
              "SqlEditorUI", "DatabaseQueryAPI", "BackupRecoveryLifecycle"}
         -> "describe"
    [] OTHER -> "test"

\* A describe block declares a beforeAll and an afterAll hook; a test of
\* its own has neither.
HasHooks(g) == Kind(g) \in {"serial", "describe"}

\* The fixture the group's tests take: a browser page or an API request
\* context.
Fixture(g) ==
  IF g \in {"LaunchProjectOrg", "ProjectCreationUI", "TableEditorUI",
            "OrganizationDashboardUI", "LaunchProjectOrgs",
            "TableEditorVisible", "SqlEditorUI", "SqlEditorVisible"}
  THEN "page" ELSE "request"

\* Excluded with the rollback test of Database Rollback declared with
\* test(...) instead of test.skip(...).
ExcludedRollbackEnabled(g) ==
  CASE g = "BackupRecoveryLifecycle"
         -> <<TRUE, FALSE, FALSE, FALSE, TRUE, TRUE, FALSE>>
    [] g = "DatabaseRollback"
         -> <<TRUE, FALSE, FALSE, FALSE, FALSE, TRUE>>
    [] g = "AuthConfigAPI" -> <<FALSE, FALSE, FALSE>>
    [] g = "BranchDatabaseLifecycle" -> <<TRUE>>
    [] OTHER -> <<FALSE>>

\* The declared tests of the group in declaration order: TRUE marks a test
\* declared with test.skip (excluded), FALSE one declared with test.
Excluded(g) ==
  CASE g = "BackupRecoveryLifecycle"
         -> <<TRUE, FALSE, FALSE, FALSE, TRUE, TRUE, FALSE>>
    [] g = "DatabaseRollback"
         -> <<TRUE, FALSE, FALSE, FALSE, TRUE, TRUE>>
    [] g = "AuthConfigAPI" -> <<FALSE, FALSE, FALSE>>
    [] g = "BranchDatabaseLifecycle" -> <<TRUE>>
    [] OTHER -> <<FALSE>>

NSteps(g) == Len(Excluded(g))

\* The keys the group's skip guard tests: test.skip(!a || !b, ...) in the
\* beforeAll hook, or at the top of the test body for HealthCheckGated.
GuardKeys(g) ==
  CASE g \in {"ProjectCreationUI", "OrganizationDashboardUI"}
         -> {"SUPABASE_BASE_URL", "SUPABASE_ORG_REF"}
    [] g \in {"TableEditorUI", "SqlEditorUI"}
         -> {"SUPABASE_BASE_URL", "SUPABASE_PROJECT_REF"}
    [] g \in {"HealthCheckGated", "DatabaseQueryAPI", "AuthConfigAPI",
              "BackupRecoveryLifecycle", "DatabaseRollback"}
         -> {"SUPABASE_PROJECT_REF", "SUPABASE_ACCESS_TOKEN"}
    [] OTHER -> {}

\* The keys whose value a test body puts into the URL or the Authorization
\* header of what it requests, read with an empty default
\* (process.env.X || ""): with the value empty the body has nothing to
\* address.  A key read with a non-empty default is not among them.
UsedKeys(g) ==
  CASE g \in {"LaunchProjectOrg"} -> {"SUPABASE_ORG_REF"}
    [] g \in {"TableEditorVisible", "SqlEditorVisible"}
         -> {"SUPABASE_PROJECT_REF"}
    [] g = "ProjectCreationUI" -> {"SUPABASE_BASE_URL", "SUPABASE_ORG_REF"}
    [] g = "OrganizationDashboardUI" -> {"SUPABASE_BASE_URL"}
    [] g \in {"TableEditorUI", "SqlEditorUI"}
         -> {"SUPABASE_BASE_URL", "SUPABASE_PROJECT_REF"}
    [] g \in {"HealthCheckUngated", "HealthCheckGated",
              "BackupRecoveryLifecycle"}
         -> {"SUPABASE_PROJECT_REF", "SUPABASE_ACCESS_TOKEN"}
    [] g \in {"DatabaseQueryAPI", "AuthConfigAPI", "DatabaseRollback",
              "BranchDatabaseLifecycle"}
         -> {"SUPABASE_BASE_API_URL", "SUPABASE_PROJECT_REF",
             "SUPABASE_ACCESS_TOKEN"}
    [] OTHER -> {}

\* The configuration the group requires: what its guard declares and what
\* its bodies cannot do without.
RequiredKeys(g) == GuardKeys(g) \cup UsedKeys(g)

\* The afterAll hook as written sends requests: the PATCH of the auth
\* configuration, or DROP TABLE and the PATCH that disables branching.
AfterAllRequests(g) == g \in {"AuthConfigAPI", "BranchDatabaseLifecycle"}

\* The tests that assign the group's shared variable checkpointName.
Writers(g) ==
  IF g \in {"BackupRecoveryLifecycle", "DatabaseRollback"} THEN {1} ELSE {}

\* ------------------------------------------------------- external answers

\* The status the tests expect of the endpoint that test i of group g
\* calls: 201 of database/query and of the creation of a restore point,
\* 200 of config/auth, of a migration, of a restore and of the listing of
\* restore points.
DocumentedStatus(g, i) ==
  CASE g \in {"HealthCheckUngated", "HealthCheckGated", "DatabaseQueryAPI"}
         -> "201"
    [] g = "AuthConfigAPI" -> "200"
    [] g \in {"BackupRecoveryLifecycle", "DatabaseRollback"} ->
         IF i \in {1, 3, 4, 6} THEN "201" ELSE "200"
    [] OTHER -> "none"

\* What a request of the API request context ends in: an HTTP status, or
\* "throw" when the request itself is rejected (network error, timeout).
ApiAnswers == {"200", "201", "500", "throw"}

\* What a page step finds: the awaited element or URL is there, or not.
PageAnswers == {"met", "unmet"}

Answers(g) == IF Fixture(g) = "page" THEN PageAnswers ELSE ApiAnswers

\* Whether test i of group g passes on answer r: the expect() calls of the
\* test body.
StepPasses(g, i, r) ==
  CASE Fixture(g) = "page" -> r = "met"
    [] g = "HealthCheckUngated" -> r \in {"200", "201"}
    [] g \in {"HealthCheckGated", "DatabaseQueryAPI"} -> r = "201"
    [] g = "AuthConfigAPI" -> r = "200"
    [] g \in {"BackupRecoveryLifecycle", "DatabaseRollback"} ->
         CASE i \in {1, 3, 4, 6} -> r = "201"
           [] i \in {2, 5} -> r = "200"
           [] OTHER -> r # "throw"
    [] OTHER -> FALSE

\* -------------------------------------------------------------- page URLs

Segments == {"/dashboard", "/sign-in", "?returnTo="}

Urls == UNION { [1..n -> Segments] : n \in 1..MaxUrlLen }

SignInUrl == <<"/dashboard", "/sign-in">>

\* expect(page).toHaveURL(/\/dashboard(?!\/sign-in)/): the pattern is found
\* anywhere in the URL, at a "/dashboard" not followed by "/sign-in".
UrlMatches(u) ==
  \E i \in 1..Len(u) :
    /\ u[i] = "/dashboard"
    /\ ~(i < Len(u) /\ u[i + 1] = "/sign-in")

\* The page is on the login path /dashboard/sign-in.
OnLoginPath(u) ==
  Len(u) >= 2 /\ u[1] = "/dashboard" /\ u[2] = "/sign-in"

\* ------------------------------------------------------------------ state

VARIABLES
  env,        \* the keys with a non-empty value in the process environment
  authPc,     \* where the 'authenticate' setup test is
  authErr,    \* what went wrong in it: "none", "action", "timeout", "save"
  authRuns,   \* how often 'authenticate' has been started
  pageUrl,    \* the URL of its page
  navs,       \* navigations of the page during the wait
  artifact,   \* playwright/.auth/user.json has been written in this run
  sel,        \* the dispatched group, "none" before
  gPhase,     \* "pending", "running", "teardown", "done", "notrun"
  gIdx,       \* the test of the group that is next
  gRes,       \* per test: "pending", "passed", "failed", "skipped", "notrun"
  gResp,      \* per test: the answer its request got, "none" before
  gActive,    \* beforeAll has run in the current worker, afterAll not yet
  gGateSkip,  \* beforeAll called test.skip(true, ...) in the current worker
  gAfterAll,  \* how often the afterAll hook has run
  gWorker,    \* worker processes the group has used up
  gHookErr,   \* the afterAll hook threw
  gSent,      \* who called the request context: test numbers, 0 for afterAll
  gCarried,   \* checkpointName in the current worker: "unset" or "set"
  gTestId,    \* per test: testId as its body used it in a table name, or 0
  pollPc,     \* where the branch-status poll is
  attempts,   \* its counter
  fetches,    \* status requests it has sent
  firstReady, \* the first request answered 200 with ACTIVE or HEALTHY, or 0
  firstBad,   \* the first request answered with an HTTP code but 200, or 0
  allOk,      \* every status request so far was answered with HTTP 200
  pollErr     \* why the poll step failed: "none", "status", "throw",
              \* "timeout" (attempts used up), "steptimeout" (time bound)

VARIABLES
  siteUrl,    \* site_url of the project's auth configuration at the backend
  siteUrl0,   \* its value before the run
  tables      \* the tables of the project database the run has created

VARIABLES
  running,    \* per group a worker of the pool is running: the test it is at
  finished,   \* the groups that are over
  loadedAt    \* per running group: testId, Date.now() at its worker's load

VARIABLES
  rbFile,       \* the file whose rollback test body is run on its own
  rbPc,         \* where that body is
  rbCheckpoint, \* checkpointName as the body finds it: "unset" or "set"
  rbTarget,     \* targetCheckpoint it sends: "none", "checkpoint", "fallback"
  rbRes         \* the test's result: "pending", "passed", "failed"

VARIABLES
  mgFile,     \* the file whose migration test is run with retries
  mgPc,       \* where the runner is with it
  mgAttempt,  \* executions of the migration test so far
  mgTestId,   \* testId in the worker at hand: Date.now() at its load
  mgKeys,     \* per execution: the table name and Idempotency-Key it sent
  mgTables    \* the tables the migrations have created in the project database

VARIABLES
  bdGroup,     \* the group whose test bodies are run in declaration order
  bdIdx,       \* the test at hand
  bdPc,        \* "idle", "enter", "request", "done", "failed"
  bdNow,       \* the clock
  bdWriter,    \* per shared variable: the test that assigned it, 0 if none
  bdReads,     \* the reads of shared variables: test, variable, its writer
  bdTimestamp, \* restoreTimestamp, 0 while not assigned
  bdCaptured,  \* the clock when restoreTimestamp was first assigned, or 0
  bdCreateAt,  \* the clock when the CREATE TABLE request was sent, or 0
  bdRecovery   \* recovery_time as the restore request sent it, or 0

authVars == <<authPc, authErr, authRuns, pageUrl, navs, artifact>>
groupVars == <<sel, gPhase, gIdx, gRes, gResp, gActive, gGateSkip, gAfterAll,
               gWorker, gHookErr, gSent, gCarried, gTestId>>
pollVars == <<pollPc, attempts, fetches, firstReady, firstBad, allOk,
             pollErr>>
backendVars == <<siteUrl, siteUrl0, tables>>
poolVars == <<running, finished, loadedAt>>
rollbackVars == <<rbFile, rbPc, rbCheckpoint, rbTarget, rbRes>>
retryVars == <<mgFile, mgPc, mgAttempt, mgTestId, mgKeys, mgTables>>
bodyVars == <<bdGroup, bdIdx, bdPc, bdNow, bdWriter, bdReads, bdTimestamp,
              bdCaptured, bdCreateAt, bdRecovery>>
isolatedVars == <<retryVars, bodyVars>>
vars == <<env, isolatedVars, backendVars, poolVars, rollbackVars, authVars,
          groupVars, pollVars>>

AuthInit ==
  /\ authPc = "idle"
  /\ authErr = "none"
  /\ authRuns = 0
  /\ pageUrl = <<>>
  /\ navs = 0
  /\ artifact = FALSE

GroupInit ==
  /\ sel = "none"
  /\ gPhase = "pending"
  /\ gIdx = 0
  /\ gRes = <<>>
  /\ gResp = <<>>
  /\ gActive = FALSE
  /\ gGateSkip = FALSE
  /\ gAfterAll = 0
  /\ gWorker = 0
  /\ gHookErr = FALSE
  /\ gSent = {}
  /\ gCarried = "unset"
  /\ gTestId = <<>>

PollIdle ==
  /\ pollPc = "idle"
  /\ attempts = 0
  /\ fetches = 0
  /\ firstReady = 0
  /\ firstBad = 0
  /\ allOk = TRUE
  /\ pollErr = "none"

\* site_url as DEFAULT_CONFIG has it, as the update test sets it, and as
\* the project's owner may have set it.
DefaultSiteUrl == "null"
TestSiteUrl == "https://test-site.example.com"
SiteUrls == {DefaultSiteUrl, TestSiteUrl, "https://app.example.com"}

BackendInit ==
  /\ siteUrl \in SiteUrls \ {TestSiteUrl}
  /\ siteUrl0 = siteUrl
  /\ tables = {}

BackendDefault ==
  siteUrl = DefaultSiteUrl /\ siteUrl0 = DefaultSiteUrl /\ tables = {}

PoolIdle == running = <<>> /\ finished = {} /\ loadedAt = <<>>

RollbackIdle ==
  /\ rbFile = "none"
  /\ rbPc = "idle"
  /\ rbCheckpoint = "unset"
  /\ rbTarget = "none"
  /\ rbRes = "pending"

RetryIdle ==
  /\ mgFile = "none"
  /\ mgPc = "idle"
  /\ mgAttempt = 0
  /\ mgTestId = 0
  /\ mgKeys = <<>>
  /\ mgTables = {}

\* The variables the tests of a group share: let checkpointName, let
\* branchRef, let restoreTimestamp.
SharedVars == {"checkpointName", "branchRef", "restoreTimestamp"}

BodiesIdle ==
  /\ bdGroup = "none"
  /\ bdIdx = 0
  /\ bdPc = "idle"
  /\ bdNow = 0
  /\ bdWriter = [v \in SharedVars |-> 0]
  /\ bdReads = {}
  /\ bdTimestamp = 0
  /\ bdCaptured = 0
  /\ bdCreateAt = 0
  /\ bdRecovery = 0

IsolatedIdle == RetryIdle /\ BodiesIdle

Init ==
  /\ env \in SUBSET Keys
  /\ IsolatedIdle
  /\ AuthInit
  /\ GroupInit
  /\ PollIdle
  /\ BackendInit
  /\ PoolIdle
  /\ RollbackIdle

\* ------------------------------------------ the 'authenticate' setup test

\* The runner starts the setup test.
AuthStart ==
  /\ authPc = "idle"
  /\ authPc' = "goto"
  /\ authRuns' = authRuns + 1
  /\ UNCHANGED <<authErr, pageUrl, navs, artifact>>
  /\ UNCHANGED <<env, isolatedVars, backendVars, poolVars, rollbackVars,
                 groupVars, pollVars>>

\* await page.goto(`${baseUrl}/dashboard/sign-in`)
AuthGoto ==
  /\ authPc = "goto"
  /\ authPc' = "fill"
  /\ pageUrl' = SignInUrl
  /\ UNCHANGED <<authErr, authRuns, navs, artifact>>
  /\ UNCHANGED <<env, isolatedVars, backendVars, poolVars, rollbackVars,
                 groupVars, pollVars>>

\* await page.fill(email), await page.fill(password)
AuthFill ==
  /\ authPc = "fill"
  /\ authPc' = "click"
  /\ UNCHANGED <<authErr, authRuns, pageUrl, navs, artifact>>
  /\ UNCHANGED <<env, isolatedVars, backendVars, poolVars, rollbackVars,
                 groupVars, pollVars>>

\* await page.getByRole("button", { name: "Sign In" }).click()
AuthClick ==
  /\ authPc = "click"
  /\ authPc' = "wait"
  /\ UNCHANGED <<authErr, authRuns, pageUrl, navs, artifact>>
  /\ UNCHANGED <<env, isolatedVars, backendVars, poolVars, rollbackVars,
                 groupVars, pollVars>>

\* goto, fill or click rejects (page unreachable, no such input or button):
\* the test fails there.
AuthActionFails ==
  /\ authPc \in {"goto", "fill", "click"}
  /\ authPc' = "failed"
  /\ authErr' = "action"
  /\ UNCHANGED <<authRuns, pageUrl, navs, artifact>>
  /\ UNCHANGED <<env, isolatedVars, backendVars, poolVars, rollbackVars,
                 groupVars, pollVars>>

\* The dashboard navigates the page while the test waits.
Navigate ==
  /\ authPc = "wait"
  /\ navs < MaxNav
  /\ \E u \in Urls : pageUrl' = u
  /\ navs' = navs + 1
  /\ UNCHANGED <<authPc, authErr, authRuns, artifact>>
  /\ UNCHANGED <<env, isolatedVars, backendVars, poolVars, rollbackVars,
                 groupVars, pollVars>>

\* await expect(page).toHaveURL(...) finds the URL to match.
AuthWaitMatch ==
  /\ authPc = "wait"
  /\ UrlMatches(pageUrl)
  /\ authPc' = "matched"
  /\ UNCHANGED <<authErr, authRuns, pageUrl, navs, artifact>>
  /\ UNCHANGED <<env, isolatedVars, backendVars, poolVars, rollbackVars,
                 groupVars, pollVars>>

\* AuthWaitTimeout with the expect not awaited: the time-out is noted and
\* the test goes on to storageState().
AuthWaitTimeoutUnawaited ==
  /\ authPc = "wait"
  /\ ~UrlMatches(pageUrl)
  /\ authPc' = "matched"
  /\ authErr' = "timeout"
  /\ UNCHANGED <<authRuns, pageUrl, navs, artifact>>
  /\ UNCHANGED <<env, isolatedVars, backendVars, poolVars, rollbackVars,
                 groupVars, pollVars>>

\* await expect(page).toHaveURL(...) times out: the expect throws and the
\* test ends failed, before storageState() is reached.
AuthWaitTimeout ==
  /\ authPc = "wait"
  /\ ~UrlMatches(pageUrl)
  /\ authPc' = "failed"
  /\ authErr' = "timeout"
  /\ UNCHANGED <<authRuns, pageUrl, navs, artifact>>
  /\ UNCHANGED <<env, isolatedVars, backendVars, poolVars, rollbackVars,
                 groupVars, pollVars>>

\* await page.context().storageState({ path: authFile })
AuthSave ==
  /\ authPc = "matched"
  /\ \/ /\ artifact' = TRUE
        /\ authPc' = "passed"
        /\ authErr' = authErr
     \/ /\ artifact' = artifact
        /\ authPc' = "failed"
        /\ authErr' = "save"
  /\ pageUrl' = <<>>
  /\ UNCHANGED <<authRuns, navs>>
  /\ UNCHANGED <<env, isolatedVars, backendVars, poolVars, rollbackVars,
                 groupVars, pollVars>>

AuthNext ==
  \/ AuthStart
  \/ AuthGoto
  \/ AuthFill
  \/ AuthClick
  \/ AuthActionFails
  \/ Navigate
  \/ AuthWaitMatch
  \/ AuthWaitTimeout
  \/ AuthSave

\* ------------------------------------------------- the runner and a group

\* CanStart without the dependency on the setup project.
CanStartWithoutSetup(g) == TRUE

\* The setup project is a dependency of the project the tests run in: a
\* group is run only once 'authenticate' has passed.
CanStart(g) == authPc = "passed"

\* The answers a request of group g can get in this environment.  With the
\* project ref, the token or the base of the endpoint empty the request
\* addresses no project: it is rejected or answered with an error status.
AnswersIn(g) ==
  IF Fixture(g) = "request" /\ ~(UsedKeys(g) \subseteq env)
  THEN {"500", "throw"}
  ELSE Answers(g)

\* The skip guard's condition: one of the guarded keys is empty.
GuardFires(g) == \E k \in GuardKeys(g) : k \notin env

\* The runner hands the group to a worker, or, the setup test having
\* failed, reports its tests as not run.
Dispatch ==
  /\ sel = "none"
  /\ \E g \in Groups :
       /\ CanStart(g) \/ authPc = "failed"
       /\ sel' = g
       /\ gRes' = [i \in 1..NSteps(g) |->
                     IF CanStart(g) THEN "pending" ELSE "notrun"]
       /\ gResp' = [i \in 1..NSteps(g) |-> "none"]
       /\ gPhase' = IF CanStart(g) THEN "running" ELSE "notrun"
       /\ gTestId' = [i \in 1..NSteps(g) |-> 0]
  /\ gIdx' = 1
  /\ UNCHANGED <<gActive, gGateSkip, gAfterAll, gWorker, gHookErr, gSent,
                 gCarried>>
  /\ UNCHANGED <<env, isolatedVars, backendVars, poolVars, rollbackVars,
                 authVars, pollVars>>

AtTest == gPhase = "running" /\ gIdx <= NSteps(sel)

\* SkipDeclared with the hooks written in the body of the skipped test
\* taken up by the worker.
SkipDeclaredRunsHooks ==
  /\ AtTest
  /\ Excluded(sel)[gIdx]
  /\ gRes' = [gRes EXCEPT ![gIdx] = "skipped"]
  /\ gIdx' = gIdx + 1
  /\ gActive' = TRUE
  /\ UNCHANGED <<sel, gPhase, gResp, gGateSkip, gAfterAll, gWorker,
                 gHookErr, gSent, gCarried, gTestId>>
  /\ UNCHANGED <<env, isolatedVars, backendVars, poolVars, rollbackVars,
                 authVars, pollVars>>

\* A test declared with test.skip: reported skipped, its body and the
\* beforeAll hook not run for it.
SkipDeclared ==
  /\ AtTest
  /\ Excluded(sel)[gIdx]
  /\ gRes' = [gRes EXCEPT ![gIdx] = "skipped"]
  /\ gIdx' = gIdx + 1
  /\ UNCHANGED <<sel, gPhase, gResp, gActive, gGateSkip, gAfterAll, gWorker,
                 gHookErr, gSent, gCarried, gTestId>>
  /\ UNCHANGED <<env, isolatedVars, backendVars, poolVars, rollbackVars,
                 authVars, pollVars>>

\* test.beforeAll: runs before the first test a worker runs of the group;
\* test.skip(!a || !b, ...) in it skips every test of the group.
BeforeAll ==
  /\ AtTest
  /\ ~Excluded(sel)[gIdx]
  /\ HasHooks(sel)
  /\ ~gActive
  /\ gActive' = TRUE
  /\ gGateSkip' = GuardFires(sel)
  /\ UNCHANGED <<sel, gPhase, gIdx, gRes, gResp, gAfterAll, gWorker, gHookErr,
                 gSent, gCarried, gTestId>>
  /\ UNCHANGED <<env, isolatedVars, backendVars, poolVars, rollbackVars,
                 authVars, pollVars>>

\* Whether the test at hand is skipped by the guard: by the beforeAll hook
\* of its describe block, or by test.skip(...) at the top of its body.
SkippedByGuard ==
  IF HasHooks(sel) THEN gActive /\ gGateSkip ELSE GuardFires(sel)

\* Whether the body of the test at hand is run.
BodyRuns ==
  IF HasHooks(sel) THEN gActive /\ ~gGateSkip ELSE ~GuardFires(sel)

\* The test at hand is skipped by the guard.
GuardSkip ==
  /\ AtTest
  /\ ~Excluded(sel)[gIdx]
  /\ SkippedByGuard
  /\ gRes' = [gRes EXCEPT ![gIdx] = "skipped"]
  /\ gIdx' = gIdx + 1
  /\ UNCHANGED <<sel, gPhase, gResp, gActive, gGateSkip, gAfterAll, gWorker,
                 gHookErr, gSent, gCarried, gTestId>>
  /\ UNCHANGED <<env, isolatedVars, backendVars, poolVars, rollbackVars,
                 authVars, pollVars>>

\* site_url after test i of group g got answer r: the PATCH of 'Update
\* site_url configuration', answered 200, has set it to the test value.
SiteUrlAfterStep(g, i, r, cur) ==
  IF g = "AuthConfigAPI" /\ i = 2 /\ r = "200" THEN TestSiteUrl ELSE cur

\* The two files that declare a rollback test: 'Step 5: Rollback to
\* restore point' and 'Rollback to backup checkpoint'.  Both are declared
\* with test.skip; the body is run here as it is written, for each value
\* checkpointName can have when it starts.
RollbackFiles == {"BackupRecoveryLifecycle", "DatabaseRollback"}

\* The latest value of Date.now(), in milliseconds from some instant.
MaxTime == 4

\* The values of Date.now().
Times == 1..MaxTime

\* const tableName = `test_table_${testId}`
TableName(t) == [prefix |-> "test_table_", id |-> t]

\* const idempotencyKey = `migration_${tableName}_${testId}`
IdempotencyKey(t) == [prefix |-> "migration_", table |-> TableName(t), id |-> t]

\* What the migration endpoint does with a request: a request it answers
\* 200 it has applied; one that ends otherwise (error status, or no answer
\* reaching the client) it may have applied or not.  A request whose
\* Idempotency-Key it has applied before is not applied again.
MigrationApplied(r, applied) == IF r = "200" THEN TRUE ELSE applied

\* testId in the n-th worker the group is run in after its first:
\* Date.now() when that worker loaded the file.  A worker is started once
\* the one before it has ended, which takes more than a millisecond.
WorkerTestId(n) == n + 1

\* The tests whose request names the table.
UsesTable(g, i) == g \in RollbackFiles /\ i \in {2, 3, 4, 6}

\* testId as test i of group g uses it when run in worker n.
TestIdUsed(g, i, n) == IF UsesTable(g, i) THEN WorkerTestId(n) ELSE 0

\* Whether a migration request that was not answered 200 may have been
\* applied all the same: not when it addressed no project.
MayBeApplied(g, i) ==
  IF g \in RollbackFiles /\ i = 2 /\ UsedKeys(g) \subseteq env
  THEN BOOLEAN ELSE {FALSE}

\* The tables of the project database after test i of group g, run in
\* worker n, got answer r: the migration creates the table it names.
TablesAfterStep(g, i, r, applied, n, cur) ==
  IF g \in RollbackFiles /\ i = 2 /\ MigrationApplied(r, applied)
       /\ UsedKeys(g) \subseteq env
  THEN cur \cup {TableName(WorkerTestId(n))}
  ELSE cur

\* RunStep going on, after a passed test, with the next test but one.
RunStepSkipsNext ==
  /\ AtTest
  /\ ~Excluded(sel)[gIdx]
  /\ BodyRuns
  /\ \E r \in AnswersIn(sel), applied \in MayBeApplied(sel, gIdx) :
       /\ gResp' = [gResp EXCEPT ![gIdx] = r]
       /\ siteUrl' = SiteUrlAfterStep(sel, gIdx, r, siteUrl)
       /\ tables' = TablesAfterStep(sel, gIdx, r, applied, gWorker, tables)
       /\ IF StepPasses(sel, gIdx, r)
          THEN /\ gRes' = [gRes EXCEPT ![gIdx] = "passed"]
               /\ gIdx' = gIdx + 2
               /\ gPhase' = gPhase
               /\ gCarried' = IF gIdx \in Writers(sel) THEN "set" ELSE gCarried
          ELSE /\ gRes' = [gRes EXCEPT ![gIdx] = "failed"]
               /\ gIdx' = gIdx
               /\ gPhase' = "teardown"
               /\ gCarried' = gCarried
  /\ gSent' = IF Fixture(sel) = "request" THEN gSent \cup {gIdx} ELSE gSent
  /\ gTestId' = [gTestId EXCEPT ![gIdx] = TestIdUsed(sel, gIdx, gWorker)]
  /\ UNCHANGED <<sel, gActive, gGateSkip, gAfterAll, gWorker, gHookErr>>
  /\ UNCHANGED <<env, isolatedVars, siteUrl0, poolVars, rollbackVars,
                 authVars, pollVars>>

\* The body of the test at hand: its request or page interaction and its
\* expect() calls.  A failed test ends the worker: see Teardown.
RunStep ==
  /\ AtTest
  /\ ~Excluded(sel)[gIdx]
  /\ BodyRuns
  /\ \E r \in AnswersIn(sel), applied \in MayBeApplied(sel, gIdx) :
       /\ gResp' = [gResp EXCEPT ![gIdx] = r]
       /\ siteUrl' = SiteUrlAfterStep(sel, gIdx, r, siteUrl)
       /\ tables' = TablesAfterStep(sel, gIdx, r, applied, gWorker, tables)
       /\ IF StepPasses(sel, gIdx, r)
          THEN /\ gRes' = [gRes EXCEPT ![gIdx] = "passed"]
               /\ gIdx' = gIdx + 1
               /\ gPhase' = gPhase
               /\ gCarried' = IF gIdx \in Writers(sel) THEN "set" ELSE gCarried
          ELSE /\ gRes' = [gRes EXCEPT ![gIdx] = "failed"]
               /\ gIdx' = gIdx
               /\ gPhase' = "teardown"
               /\ gCarried' = gCarried
  /\ gSent' = IF Fixture(sel) = "request" THEN gSent \cup {gIdx} ELSE gSent
  /\ gTestId' = [gTestId EXCEPT ![gIdx] = TestIdUsed(sel, gIdx, gWorker)]
  /\ UNCHANGED <<sel, gActive, gGateSkip, gAfterAll, gWorker, gHookErr>>
  /\ UNCHANGED <<env, isolatedVars, siteUrl0, poolVars, rollbackVars,
                 authVars, pollVars>>

\* What the afterAll hook's await request.patch(...) does to the hook on
\* answer r: the hook has no try/catch and checks no status, so it throws
\* exactly when the request throws.
AfterAllThrows(g, r) == AfterAllRequests(g) /\ r = "throw"

\* site_url after the afterAll hook's PATCH of DEFAULT_CONFIG got answer r.
SiteUrlAfterHook(g, r, cur) ==
  IF g = "AuthConfigAPI" /\ r = "200" THEN DefaultSiteUrl ELSE cur

\* test.afterAll: runs once the worker has run its last test of the group,
\* and right after a failed test, in every worker whose beforeAll has run.
AfterAll ==
  /\ \/ gPhase = "running" /\ gIdx > NSteps(sel)
     \/ gPhase = "teardown"
  /\ gActive
  /\ gActive' = FALSE
  /\ gAfterAll' = gAfterAll + 1
  /\ \E r \in (IF AfterAllRequests(sel) THEN AnswersIn(sel) ELSE {"none"}) :
       /\ gHookErr' = (gHookErr \/ AfterAllThrows(sel, r))
       /\ siteUrl' = SiteUrlAfterHook(sel, r, siteUrl)
  /\ gSent' = IF AfterAllRequests(sel) THEN gSent \cup {0} ELSE gSent
  /\ UNCHANGED <<sel, gPhase, gIdx, gRes, gResp, gGateSkip, gWorker, gCarried,
                 gTestId>>
  /\ UNCHANGED <<env, isolatedVars, siteUrl0, tables, poolVars, rollbackVars,
                 authVars, pollVars>>

\* After a failed test the worker process is discarded.  In a serial group
\* the tests that follow are not run; otherwise a new worker loads the
\* file again and goes on with the next test.
Teardown ==
  /\ gPhase = "teardown"
  /\ ~gActive
  /\ gWorker' = gWorker + 1
  /\ gGateSkip' = FALSE
  /\ gCarried' = "unset"
  /\ IF Kind(sel) = "serial"
     THEN /\ gRes' = [i \in 1..NSteps(sel) |->
                        IF i > gIdx THEN "notrun" ELSE gRes[i]]
          /\ gIdx' = NSteps(sel) + 1
     ELSE /\ gRes' = gRes
          /\ gIdx' = gIdx + 1
  /\ gPhase' = "running"
  /\ UNCHANGED <<sel, gResp, gActive, gAfterAll, gHookErr, gSent, gTestId>>
  /\ UNCHANGED <<env, isolatedVars, backendVars, poolVars, rollbackVars,
                 authVars, pollVars>>

\* The group's last test is over and its hooks have run.
Finish ==
  /\ gPhase = "running"
  /\ gIdx > NSteps(sel)
  /\ ~gActive
  /\ gPhase' = "done"
  /\ UNCHANGED <<sel, gIdx, gRes, gResp, gActive, gGateSkip, gAfterAll,
                 gWorker, gHookErr, gSent, gCarried, gTestId>>
  /\ UNCHANGED <<env, isolatedVars, backendVars, poolVars, rollbackVars,
                 authVars, pollVars>>

GroupNext ==
  \/ Dispatch
  \/ SkipDeclared
  \/ BeforeAll
  \/ GuardSkip
  \/ RunStep
  \/ AfterAll
  \/ Teardown
  \/ Finish

\* ------------------------------------------------------------ the summary

RunDone == gPhase \in {"done", "notrun"}

\* A test that was run and failed, the setup test included.
StepFailed ==
  \/ authPc = "failed"
  \/ \E i \in DOMAIN gRes : gRes[i] = "failed"

\* The runner's exit code: non-zero when a test or a hook failed.
ExitCode == IF StepFailed \/ gHookErr THEN 1 ELSE 0

Next == AuthNext \/ GroupNext

Spec == Init /\ [][Next]_vars

\* ------------------------------------------------- the branch-status poll
\* The body of the test "Wait for branch to become active" of the Branch
\* Database Lifecycle block (query.spec.ts:250-280), run on its own from
\* its first statement.

BranchStatuses == {"ACTIVE", "HEALTHY", "CREATING"}

\* What request.get(branchStatusEndpoint) ends in: HTTP 200 with a branch
\* status, another HTTP status (an error body, no branch status), or a
\* rejected request.
PollAnswers ==
  {[code |-> "200", status |-> st] : st \in BranchStatuses}
    \cup {[code |-> c, status |-> "none"] : c \in {"500", "throw"}}

\* LoopCond with <= for <.
LoopCondInclusive(a) == a <= maxAttempts

\* while (attempts < maxAttempts)
LoopCond(a) == a < maxAttempts

\* IsReady without the HEALTHY alternative.
IsReadyActiveOnly(st) == st = "ACTIVE"

\* statusData.status === "ACTIVE" || statusData.status === "HEALTHY"
IsReady(st) == st = "ACTIVE" \/ st = "HEALTHY"

\* StatusExpected with the expect on the status taken out.
StatusExpectedAny(c) == TRUE

\* expect(statusResponse.status()).toBe(200)
StatusExpected(c) == c = "200"

\* expect(attempts).toBeLessThan(maxAttempts)
FinalCheck(a) == a < maxAttempts

InitPoll ==
  /\ IsolatedIdle
  /\ env = Keys
  /\ AuthInit
  /\ GroupInit
  /\ BackendDefault
  /\ PoolIdle
  /\ RollbackIdle
  /\ pollPc = "while"
  /\ attempts = 0
  /\ fetches = 0
  /\ firstReady = 0
  /\ firstBad = 0
  /\ allOk = TRUE
  /\ pollErr = "none"

\* The loop condition is tested.
PollWhile ==
  /\ pollPc = "while"
  /\ pollPc' = IF LoopCond(attempts) THEN "get" ELSE "final"
  /\ UNCHANGED <<attempts, fetches, firstReady, firstBad, allOk, pollErr>>
  /\ UNCHANGED <<env, isolatedVars, backendVars, poolVars, rollbackVars,
                 authVars, groupVars>>

\* await request.get(...), expect(status).toBe(200), the status test.
PollGet ==
  /\ pollPc = "get"
  /\ fetches' = fetches + 1
  /\ \E a \in PollAnswers :
       /\ allOk' = (allOk /\ a.code = "200")
       /\ firstReady' =
            IF firstReady = 0 /\ a.code = "200"
                 /\ a.status \in {"ACTIVE", "HEALTHY"}
            THEN fetches + 1 ELSE firstReady
       /\ firstBad' =
            IF firstBad = 0 /\ a.code \notin {"200", "throw"}
            THEN fetches + 1 ELSE firstBad
       /\ CASE a.code = "throw" -> pollPc' = "failed" /\ pollErr' = "throw"
            [] a.code # "throw" /\ ~StatusExpected(a.code)
                 -> pollPc' = "failed" /\ pollErr' = "status"
            [] a.code # "throw" /\ StatusExpected(a.code) /\ IsReady(a.status)
                 -> pollPc' = "final" /\ pollErr' = pollErr
            [] OTHER -> pollPc' = "sleep" /\ pollErr' = pollErr
  /\ UNCHANGED attempts
  /\ UNCHANGED <<env, isolatedVars, backendVars, poolVars, rollbackVars,
                 authVars, groupVars>>

\* await new Promise((resolve) => setTimeout(resolve, 5000)); attempts++
PollSleep ==
  /\ pollPc = "sleep"
  /\ attempts' = attempts + 1
  /\ pollPc' = "while"
  /\ UNCHANGED <<fetches, firstReady, firstBad, allOk, pollErr>>
  /\ UNCHANGED <<env, isolatedVars, backendVars, poolVars, rollbackVars,
                 authVars, groupVars>>

\* expect(attempts).toBeLessThan(maxAttempts)
PollFinal ==
  /\ pollPc = "final"
  /\ IF FinalCheck(attempts)
     THEN pollPc' = "passed" /\ pollErr' = pollErr
     ELSE pollPc' = "failed" /\ pollErr' = "timeout"
  /\ UNCHANGED <<attempts, fetches, firstReady, firstBad, allOk>>
  /\ UNCHANGED <<env, isolatedVars, backendVars, poolVars, rollbackVars,
                 authVars, groupVars>>

\* The harness ends a test that exceeds its time bound, and the test has
\* failed.  The test body sets no bound of its own and the configuration
\* that sets the harness's is not part of the sources, so the bound may
\* expire during any request or sleep; the statements between a ready
\* answer and the end of the body take no time.
PollStepTimeout ==
  /\ pollPc \in {"get", "sleep"}
  /\ pollPc' = "failed"
  /\ pollErr' = "steptimeout"
  /\ UNCHANGED <<attempts, fetches, firstReady, firstBad, allOk>>
  /\ UNCHANGED <<env, isolatedVars, backendVars, poolVars, rollbackVars,
                 authVars, groupVars>>

NextPoll == PollWhile \/ PollGet \/ PollSleep \/ PollFinal \/ PollStepTimeout

SpecPoll == InitPoll /\ [][NextPoll]_vars

PollDone == pollPc \in {"passed", "failed"}

\* ------------------------------------------------------- the worker pool

\* The workers of the pool.
PoolSize == 2

\* The groups that call the Management API.
ApiGroups == {g \in Groups : Fixture(g) = "request"}

\* The resource of the project that the group's requests change: the
\* project database (migration CREATE TABLE, INSERT with read_only: false)
\* or the auth configuration (PATCH config/auth).
Resource(g) ==
  CASE g \in {"BackupRecoveryLifecycle", "DatabaseRollback"} -> "database"
    [] g = "AuthConfigAPI" -> "auth config"
    [] OTHER -> "none"

\* The tests of the group that send a changing request.
MutatingSteps(g) ==
  CASE g \in {"BackupRecoveryLifecycle", "DatabaseRollback"} -> {2, 3}
    [] g = "AuthConfigAPI" -> {2}
    [] OTHER -> {}

InitPool ==
  /\ IsolatedIdle
  /\ env = Keys
  /\ AuthInit
  /\ GroupInit
  /\ PollIdle
  /\ BackendDefault
  /\ RollbackIdle
  /\ running = <<>>
  /\ finished = {}
  /\ loadedAt = <<>>

\* A free worker takes a group that is not yet run.  The test files name
\* no resource and no group to wait for, so any group may be taken.  The
\* worker loads the file: const testId = Date.now().
PoolStart ==
  /\ Cardinality(DOMAIN running) < PoolSize
  /\ \E g \in ApiGroups \ (DOMAIN running \cup finished) :
       /\ running' = [h \in DOMAIN running \cup {g} |->
                        IF h = g THEN 1 ELSE running[h]]
       /\ \E t \in (IF g \in RollbackFiles THEN Times ELSE {0}) :
            loadedAt' = [h \in DOMAIN running \cup {g} |->
                           IF h = g THEN t ELSE loadedAt[h]]
  /\ UNCHANGED finished
  /\ UNCHANGED <<env, isolatedVars, backendVars, rollbackVars, authVars,
                 groupVars,
                 pollVars>>

\* The worker of group g is done with the test it is at and goes on with
\* the next.
PoolStep ==
  /\ \E g \in DOMAIN running :
       /\ running[g] < NSteps(g)
       /\ running' = [running EXCEPT ![g] = running[g] + 1]
  /\ UNCHANGED <<finished, loadedAt>>
  /\ UNCHANGED <<env, isolatedVars, backendVars, rollbackVars, authVars,
                 groupVars,
                 pollVars>>

\* The worker of group g is done with the last test of the group.
PoolFinish ==
  /\ \E g \in DOMAIN running :
       /\ running[g] = NSteps(g)
       /\ running' = [h \in DOMAIN running \ {g} |-> running[h]]
       /\ loadedAt' = [h \in DOMAIN running \ {g} |-> loadedAt[h]]
       /\ finished' = finished \cup {g}
  /\ UNCHANGED <<env, isolatedVars, backendVars, rollbackVars, authVars,
                 groupVars,
                 pollVars>>

NextPool == PoolStart \/ PoolStep \/ PoolFinish

SpecPool == InitPool /\ [][NextPool]_vars

\* ------------------------------------- the rollback test body on its own

\* const targetCheckpoint = checkpointName || restorePointName
TargetCheckpoint(c) == IF c = "set" THEN "checkpoint" ELSE "fallback"

InitRollback ==
  /\ IsolatedIdle
  /\ env \in SUBSET Keys
  /\ AuthInit
  /\ GroupInit
  /\ PollIdle
  /\ BackendDefault
  /\ PoolIdle
  /\ rbFile \in RollbackFiles
  /\ rbPc = "start"
  /\ rbCheckpoint \in {"unset", "set"}
  /\ rbTarget = "none"
  /\ rbRes = "pending"

\* The body up to the request: the name to restore to is chosen.
RollbackChoose ==
  /\ rbPc = "start"
  /\ rbTarget' = TargetCheckpoint(rbCheckpoint)
  /\ rbPc' = "request"
  /\ UNCHANGED <<rbFile, rbCheckpoint, rbRes>>
  /\ UNCHANGED <<env, isolatedVars, backendVars, poolVars, authVars,
                 groupVars, pollVars>>

\* await request.post(undoEndpoint, ...); expect(status).toBe(200); the
\* wait of 5 seconds.
RollbackRequest ==
  /\ rbPc = "request"
  /\ \E r \in AnswersIn(rbFile) :
       rbRes' = IF StepPasses(rbFile, 5, r) THEN "passed" ELSE "failed"
  /\ rbPc' = "done"
  /\ UNCHANGED <<rbFile, rbCheckpoint, rbTarget>>
  /\ UNCHANGED <<env, isolatedVars, backendVars, poolVars, authVars,
                 groupVars, pollVars>>

NextRollback == RollbackChoose \/ RollbackRequest

SpecRollback == InitRollback /\ [][NextRollback]_vars

\* --------------------------------------- the migration test with retries
\* 'Step 2: Execute database migration' (paas-lifecycle.spec.ts:85-119) and
\* 'Execute database migration' (part_005:84-113), run with retries of
\* failed tests switched on (--retries on the command line, or retries in
\* the configuration).

\* Most retries of a failed test.
MaxRetries == 2

InitRetry ==
  /\ env = Keys
  /\ AuthInit
  /\ GroupInit
  /\ PollIdle
  /\ BackendDefault
  /\ PoolIdle
  /\ RollbackIdle
  /\ BodiesIdle
  /\ mgFile \in RollbackFiles
  /\ mgPc = "load"
  /\ mgAttempt = 0
  /\ mgTestId = 0
  /\ mgKeys = <<>>
  /\ mgTables = {}

\* A worker process loads the test file: const testId = Date.now().  A
\* worker started for a retry is started after the failure.
RetryLoad ==
  /\ mgPc = "load"
  /\ \E t \in Times :
       /\ t > mgTestId
       /\ mgTestId' = t
  /\ mgPc' = "test"
  /\ UNCHANGED <<mgFile, mgAttempt, mgKeys, mgTables>>
  /\ UNCHANGED <<env, bodyVars, backendVars, poolVars, rollbackVars, authVars,
                 groupVars, pollVars>>

\* The body of the migration test: the request with its Idempotency-Key,
\* expect(migrationResponse.status()).toBe(200).
RetryMigrate ==
  /\ mgPc = "test"
  /\ mgAttempt' = mgAttempt + 1
  /\ mgKeys' = Append(mgKeys, [table |-> TableName(mgTestId),
                               key |-> IdempotencyKey(mgTestId)])
  /\ \E r \in AnswersIn(mgFile), applied \in BOOLEAN :
       /\ mgTables' =
            IF MigrationApplied(r, applied)
            THEN mgTables \cup {TableName(mgTestId)}
            ELSE mgTables
       /\ mgPc' = IF StepPasses(mgFile, 2, r) THEN "passed" ELSE "failed"
  /\ UNCHANGED <<mgFile, mgTestId>>
  /\ UNCHANGED <<env, bodyVars, backendVars, poolVars, rollbackVars, authVars,
                 groupVars, pollVars>>

\* The runner retries the failed test: the worker it failed in is
\* discarded and a new worker runs the test again.
RetryAgain ==
  /\ mgPc = "failed"
  /\ mgAttempt <= MaxRetries
  /\ mgTestId < MaxTime
  /\ mgPc' = "load"
  /\ UNCHANGED <<mgFile, mgAttempt, mgTestId, mgKeys, mgTables>>
  /\ UNCHANGED <<env, bodyVars, backendVars, poolVars, rollbackVars, authVars,
                 groupVars, pollVars>>

NextRetry == RetryLoad \/ RetryMigrate \/ RetryAgain

SpecRetry == InitRetry /\ [][NextRetry]_vars

\* ------------------------------------ the test bodies in declaration order
\* The bodies of the tests of a group that shares variables between its
\* tests, run as they are written, one after the other in one worker, up
\* to the first that fails: those declared with test.skip and those inside
\* the body of test.skip("Branch Database Lifecycle", ...) included.

CarriedGroups ==
  {"BranchDatabaseLifecycle", "BackupRecoveryLifecycle", "DatabaseRollback"}

\* The tests written in the group's body.
BodySteps(g) == IF g = "BranchDatabaseLifecycle" THEN 9 ELSE NSteps(g)

\* Assigns with branchRef assigned by 'Verify table exists in branch'
\* instead of 'Create database branch'.
AssignsBranchRefLate(g, i) ==
  CASE g = "BranchDatabaseLifecycle" /\ i = 1 -> {"restoreTimestamp"}
    [] g = "BranchDatabaseLifecycle" /\ i = 5 -> {"branchRef"}
    [] g \in RollbackFiles /\ i = 1 -> {"checkpointName"}
    [] OTHER -> {}

\* The shared variables the body of test i of group g assigns.
Assigns(g, i) ==
  CASE g = "BranchDatabaseLifecycle" /\ i = 1 -> {"restoreTimestamp"}
    [] g = "BranchDatabaseLifecycle" /\ i = 3 -> {"branchRef"}
    [] g \in RollbackFiles /\ i = 1 -> {"checkpointName"}
    [] OTHER -> {}

\* Those of them assigned before the test's request is sent; the others
\* are assigned from the response, once its status was as expected.
AssignedBeforeRequest == {"restoreTimestamp"}

\* The shared variables the body of test i of group g reads.
Reads(g, i) ==
  CASE g = "BranchDatabaseLifecycle" /\ i \in {4, 5, 6, 8, 9} -> {"branchRef"}
    [] g = "BranchDatabaseLifecycle" /\ i = 7
         -> {"branchRef", "restoreTimestamp"}
    [] g \in RollbackFiles /\ i = 5 -> {"checkpointName"}
    [] OTHER -> {}

\* The status the tests of Branch Database Lifecycle expect.
BranchExpected(i) == IF i \in {2, 4, 7, 9} THEN "200" ELSE "201"

\* Whether the body of test i of group g goes through on answer r.
BodyPasses(g, i, r) ==
  IF g = "BranchDatabaseLifecycle" THEN r = BranchExpected(i)
  ELSE StepPasses(g, i, r)

\* RecoveryTime taking the time of the restore request.
RecoveryTimeAtRestore(captured, now) == now

\* data: { recovery_time: restoreTimestamp }
RecoveryTime(captured, now) == captured

InitBodies ==
  /\ env = Keys
  /\ AuthInit
  /\ GroupInit
  /\ PollIdle
  /\ BackendDefault
  /\ PoolIdle
  /\ RollbackIdle
  /\ RetryIdle
  /\ bdGroup \in CarriedGroups
  /\ bdIdx = 1
  /\ bdPc = "enter"
  /\ bdNow \in {1, 2}
  /\ bdWriter = [v \in SharedVars |-> 0]
  /\ bdReads = {}
  /\ bdTimestamp = 0
  /\ bdCaptured = 0
  /\ bdCreateAt = 0
  /\ bdRecovery = 0

\* The statements of the body before its request: the endpoint and the
\* data are built, reading shared variables; 'Create test table in main
\* database' assigns restoreTimestamp = new Date().toISOString() and waits
\* a second.
BodyEnter ==
  /\ bdPc = "enter"
  /\ bdPc' = "request"
  /\ bdReads' = bdReads \cup
       {[step |-> bdIdx, var |-> v, from |-> bdWriter[v]] :
          v \in Reads(bdGroup, bdIdx)}
  /\ IF "restoreTimestamp" \in Assigns(bdGroup, bdIdx)
     THEN /\ bdTimestamp' = bdNow
          /\ bdCaptured' = IF bdCaptured = 0 THEN bdNow ELSE bdCaptured
          /\ bdNow' \in (bdNow + 1)..MaxTime
     ELSE UNCHANGED <<bdTimestamp, bdCaptured, bdNow>>
  /\ bdWriter' = [v \in SharedVars |->
                    IF v \in Assigns(bdGroup, bdIdx) \cap AssignedBeforeRequest
                    THEN bdIdx ELSE bdWriter[v]]
  /\ UNCHANGED <<bdGroup, bdIdx, bdCreateAt, bdRecovery>>
  /\ UNCHANGED <<env, retryVars, backendVars, poolVars, rollbackVars,
                 authVars, groupVars, pollVars>>

\* The request of the body, the expect() on its status, and the
\* assignments from its response.
BodyRequest ==
  /\ bdPc = "request"
  /\ bdCreateAt' =
       IF bdGroup = "BranchDatabaseLifecycle" /\ bdIdx = 1 THEN bdNow
       ELSE bdCreateAt
  /\ bdRecovery' =
       IF bdGroup = "BranchDatabaseLifecycle" /\ bdIdx = 7
       THEN RecoveryTime(bdTimestamp, bdNow) ELSE bdRecovery
  /\ \E r \in AnswersIn(bdGroup) :
       IF BodyPasses(bdGroup, bdIdx, r)
       THEN /\ bdWriter' = [v \in SharedVars |->
                 IF v \in Assigns(bdGroup, bdIdx) \ AssignedBeforeRequest
                 THEN bdIdx ELSE bdWriter[v]]
            /\ bdIdx' = bdIdx + 1
            /\ bdPc' = IF bdIdx = BodySteps(bdGroup) THEN "done" ELSE "enter"
       ELSE /\ bdWriter' = bdWriter
            /\ bdIdx' = bdIdx
            /\ bdPc' = "failed"
  /\ \E t \in {bdNow, bdNow + 1} : t <= MaxTime /\ bdNow' = t
  /\ UNCHANGED <<bdGroup, bdReads, bdTimestamp, bdCaptured>>
  /\ UNCHANGED <<env, retryVars, backendVars, poolVars, rollbackVars,
                 authVars, groupVars, pollVars>>

NextBodies == BodyEnter \/ BodyRequest

SpecBodies == InitBodies /\ [][NextBodies]_vars

\* ================================================================ claims

Dispatched == sel # "none"

\* The tests of the dispatched group whose body was run.
Executed == {i \in DOMAIN gRes : gRes[i] \in {"passed", "failed"}}

\* Some key the dispatched group requires is empty.
MissingRequired == \E k \in RequiredKeys(sel) : k \notin env

\* C1: a group or standalone test, one of whose required configuration
\* values is empty, runs none of its tests, fails nothing, and is reported
\* as skipped once it is over; claimed for every declared group.
C1_UnconfiguredGroupIsSkipped ==
  (Dispatched /\ MissingRequired) =>
    /\ Executed = {}
    /\ ~gHookErr
    /\ (gPhase = "done" => \A i \in DOMAIN gRes : gRes[i] = "skipped")

\* C2: in a group with hooks, once test K has failed no later test is run
\* and the afterAll hook runs exactly once; claimed for test.describe.serial
\* and for test.describe.
C2_FailureStopsGroup ==
  (Dispatched /\ HasHooks(sel)) =>
    \A k \in DOMAIN gRes :
      gRes[k] = "failed" =>
        /\ \A j \in DOMAIN gRes : j > k => j \notin Executed
        /\ gAfterAll <= 1
        /\ (gPhase = "done" => gAfterAll = 1)

\* C3: the run exits non-zero if and only if a test that was run failed.
C3_ExitNonZeroIffStepFailed ==
  RunDone => ((ExitCode # 0) <=> StepFailed)

\* C4: whenever the wait of 'authenticate' for the URL succeeds, so that
\* the storage state is written next, the page is no longer on the login
\* path /dashboard/sign-in.
C4_WaitSucceedsOffLoginPath ==
  authPc = "matched" => ~OnLoginPath(pageUrl)

\* C5: when the wait for the post-login URL times out, 'authenticate'
\* fails, the storage state file is not written, and no test of a group
\* that takes the authenticated page is run.
C5_AuthTimeoutIsFatal ==
  authErr = "timeout" =>
    /\ authPc = "failed"
    /\ ~artifact
    /\ (Dispatched /\ Fixture(sel) = "page") =>
         (gPhase = "notrun" /\ Executed = {} /\ ~gActive)

\* C5 witness: the wait timed out and a page group was reported not run.
C5_Witness ==
  /\ authErr = "timeout"
  /\ Dispatched
  /\ Fixture(sel) = "page"
  /\ gPhase = "notrun"

\* C6: 'authenticate' is started at most once, and a group that takes the
\* authenticated page is only ever under way when 'authenticate' has
\* passed and written the storage state.
C6_AuthOnceBeforeGroups ==
  /\ authRuns <= 1
  /\ (Dispatched /\ Fixture(sel) = "page"
        /\ gPhase \in {"running", "teardown", "done"})
       => (authPc = "passed" /\ artifact)

\* C6 witness: a test of a page group has passed.
C6_Witness ==
  /\ Dispatched
  /\ Fixture(sel) = "page"
  /\ \E i \in DOMAIN gRes : gRes[i] = "passed"
  /\ authRuns = 1

\* C11: a test whose call to the Management API was answered with a
\* status other than the one documented for the endpoint has failed; it
\* has neither passed nor been skipped.  Claimed for every test,
\* 'Step 7: List available restore points' and the health check without
\* a guard included.
C11_UnexpectedStatusFails ==
  (Dispatched /\ Fixture(sel) = "request") =>
    \A i \in DOMAIN gResp :
      (gResp[i] \notin {"none", "throw", DocumentedStatus(sel, i)})
        => gRes[i] = "failed"

\* C12: once the Auth Config API group is over, site_url of the auth
\* configuration is what it was before the group ran, for every value it
\* had before.
C12_ConfigRestored ==
  (sel = "AuthConfigAPI" /\ gPhase = "done") => siteUrl = siteUrl0

\* C13: no two groups that change the same resource of the project are
\* run at the same time: never are two workers of the pool each at a test
\* that changes the same resource.
C13_MutatorsNeverOverlap ==
  \A g, h \in DOMAIN running :
    (/\ g # h
     /\ Resource(g) # "none"
     /\ running[g] \in MutatingSteps(g)
     /\ running[h] \in MutatingSteps(h))
      => Resource(g) # Resource(h)

C15_UnsetCheckpointFailsLoud ==
  (rbCheckpoint = "unset" /\ rbPc = "done") => rbRes = "failed"

\* The tests of the dispatched group with the given result.
WithResult(res) == {i \in DOMAIN gRes : gRes[i] = res}

\* Every call of an executed test was answered with the status documented
\* for its endpoint.
AllDocumented == \A i \in Executed : gResp[i] = DocumentedStatus(sel, i)

\* Database Rollback is over, in a fully configured environment, every
\* call answered as documented.
RollbackRanAsDocumented ==
  /\ sel = "DatabaseRollback"
  /\ env = Keys
  /\ gPhase = "done"
  /\ AllDocumented

\* C16 as claimed: Database Rollback is then a group of 5 tests, of which
\* exactly 3 have passed and exactly 2 were not executed, and it has
\* passed.
C16_FiveStepsTwoNotExecuted ==
  RollbackRanAsDocumented =>
    /\ NSteps(sel) = 5
    /\ Cardinality(WithResult("passed")) = 3
    /\ Cardinality(DOMAIN gRes \ Executed) = 2
    /\ WithResult("failed") = {}

\* C16 amended: Database Rollback is then a group of 6 tests, of which
\* exactly the 3 tests migrate, insert and verify (2, 3, 4) have passed and
\* exactly the 3 tests declared with test.skip (1, 5, 6) were not executed
\* and are reported skipped, and the group has passed: no test and no hook
\* failed.
C16_SixStepsThreeNotExecuted ==
  RollbackRanAsDocumented =>
    /\ Len(gRes) = 6
    /\ WithResult("passed") = {2, 3, 4}
    /\ WithResult("skipped") = {1, 5, 6}
    /\ WithResult("failed") = {}
    /\ ~gHookErr
    /\ gAfterAll = 1

\* C16 witness: such a run, with its three tests passed.
C16_Witness ==
  RollbackRanAsDocumented /\ Cardinality(WithResult("passed")) = 3

\* The group's result as the runner reports it: failed when a test of it
\* failed or a hook of it threw.
GroupFailed == WithResult("failed") # {} \/ gHookErr

\* C17: whatever the cleanup request of the afterAll hook ends in, the
\* group's result and the exit code are what the tests alone determine.
C17_CleanupNeverChangesOutcome ==
  (Dispatched /\ gPhase = "done") =>
    /\ GroupFailed <=> (WithResult("failed") # {})
    /\ ExitCode = (IF StepFailed THEN 1 ELSE 0)

\* C18: a group with a skip guard is skipped as a whole exactly when one
\* of the configuration keys it requires is empty.
C18_GuardSkipsIffKeyMissing ==
  (Dispatched /\ GuardKeys(sel) # {} /\ gPhase = "done") =>
    ((WithResult("skipped") = DOMAIN gRes) <=> MissingRequired)

\* With the keys the guard itself tests in place of the required ones, the
\* guard does skip the whole group exactly when one of them is empty.
GuardSkipsIffGuardKeyMissing ==
  (Dispatched /\ GuardKeys(sel) # {} /\ gPhase = "done") =>
    ((WithResult("skipped") = DOMAIN gRes) <=> GuardFires(sel))

\* The tests named 'Database health check via API'.
HealthChecks == {"HealthCheckUngated", "HealthCheckGated", "DatabaseQueryAPI"}

\* C19: a health check has passed only if the query endpoint answered
\* with HTTP status 201; claimed for each of the three health checks.
C19_HealthCheckNeeds201 ==
  (sel \in HealthChecks /\ gRes[1] = "passed") => gResp[1] = "201"

\* C20: a poll test ended by the time bound for the test has failed, and
\* the time bound does not end the poll before it has sent all of its
\* maxAttempts status requests.
C20_PollNotCutShort ==
  pollErr = "steptimeout" => (pollPc = "failed" /\ fetches = maxAttempts)

\* C21: every execution of the migration test in one run, a retry after a
\* failure included, sends the table name and the Idempotency-Key of the
\* first execution, and the executions together create at most one table.
C21_RetrySendsSameKey ==
  /\ \A i \in DOMAIN mgKeys : mgKeys[i] = mgKeys[1]
  /\ Cardinality(mgTables) <= 1

\* C22: a test reads a shared variable only after a test declared before
\* it has assigned the variable: never one assigned by no test yet, by the
\* test itself or by a later one.
C22_NoForwardReference ==
  \A rd \in bdReads : rd.from # 0 /\ rd.from < rd.step

\* C22 witness: the nine bodies of Branch Database Lifecycle have gone
\* through, with their seven reads of branchRef and restoreTimestamp.
C22_Witness ==
  /\ bdGroup = "BranchDatabaseLifecycle"
  /\ bdPc = "done"
  /\ Cardinality(bdReads) = 7

\* C23: all tests of one run of Database Backup & Recovery Lifecycle that
\* name the table use the same testId, and so the same table name, also
\* after a test of the run has failed.
C23_SameTableThroughout ==
  sel = "BackupRecoveryLifecycle" =>
    \A i, j \in Executed :
      (UsesTable(sel, i) /\ UsesTable(sel, j)) => gTestId[i] = gTestId[j]

\* C24: two instances of the database lifecycle groups that run at the
\* same time, each at a test that names its table, never use the same
\* table name or the same Idempotency-Key, whenever each was started.
C24_ConcurrentNamesDiffer ==
  \A g, h \in DOMAIN running \cap RollbackFiles :
    (/\ g # h
     /\ UsesTable(g, running[g]) /\ ~Excluded(g)[running[g]]
     /\ UsesTable(h, running[h]) /\ ~Excluded(h)[running[h]]) =>
      /\ TableName(loadedAt[g]) # TableName(loadedAt[h])
      /\ IdempotencyKey(loadedAt[g]) # IdempotencyKey(loadedAt[h])

\* C25: once Database Rollback or Database Backup & Recovery Lifecycle is
\* over, none of the tables its migration test created is left in the
\* project database.
C25_NoTableLeft ==
  (sel \in RollbackFiles /\ gPhase = "done") => tables = {}

\* C26: a group whose skip guard fires calls the Management API not at
\* all: not in a test and not in its afterAll hook.
C26_SkippedGroupSendsNothing ==
  (Dispatched /\ GuardFires(sel)) => gSent = {}

\* The API groups with a skip guard that read the base API URL with an
\* empty default.
GatedOnEmptyDefault == {"DatabaseQueryAPI", "AuthConfigAPI", "DatabaseRollback"}

\* C27: whenever a test of Database Query API, Auth Config API or
\* Database Rollback has issued a request, SUPABASE_BASE_API_URL is not
\* empty.
C27_NoRequestWithoutBaseApiUrl ==
  (sel \in GatedOnEmptyDefault /\ gSent \ {0} # {}) =>
    "SUPABASE_BASE_API_URL" \in env

\* C30: in no run and no environment is a request of Branch Database
\* Lifecycle issued: no test of it is run, and its afterAll hook is not.
C30_BranchGroupNeverRuns ==
  sel = "BranchDatabaseLifecycle" =>
    /\ gSent = {}
    /\ Executed = {}
    /\ gAfterAll = 0
    /\ ~gActive

\* C30 witness: the group is over in a fully configured environment,
\* reported skipped.
C30_Witness ==
  /\ sel = "BranchDatabaseLifecycle"
  /\ env = Keys
  /\ gPhase = "done"
  /\ gRes = <<"skipped">>

\* C28: once a status request of the poll is answered with an HTTP code
\* other than 200, whichever request it is, the test has failed on the
\* status, it sends no further status request and never passes.
C28_BadStatusFailsAtOnce ==
  firstBad # 0 =>
    /\ fetches = firstBad
    /\ pollPc = "failed"
    /\ pollErr = "status"
    /\ firstReady = 0

\* C28 witness: the last permitted request, number maxAttempts, was the
\* first to be answered with another code, and the test has failed.
C28_Witness == firstBad = maxAttempts /\ pollPc = "failed"

\* C29: restoreTimestamp is assigned before the request that creates the
\* table is sent, no test changes it afterwards, and the restore request
\* sends it as recovery_time.
C29_RestoreToCapturedTime ==
  /\ bdCreateAt # 0 => (bdCaptured # 0 /\ bdCaptured < bdCreateAt)
  /\ bdCaptured # 0 => bdTimestamp = bdCaptured
  /\ bdRecovery # 0 => bdRecovery = bdCaptured

\* C29 witness: the restore request was sent, later than the table was
\* created.
C29_Witness ==
  /\ bdRecovery # 0
  /\ bdCreateAt # 0
  /\ bdNow > bdCreateAt

\* Every test that assigns checkpointName is declared with test.skip, so
\* the shared variable is never assigned in any run.
CarriedStateNeverWritten == gCarried = "unset"

\* C9: once a status request is answered with HTTP 200 and ACTIVE or
\* HEALTHY, the poll sends no further status request and the test passes.
C9_PollStopsAtFirstReady ==
  firstReady # 0 =>
    /\ fetches = firstReady
    /\ pollPc \in {"final", "passed"}
    /\ pollErr = "none"

\* C9 witness: the last permitted request, number maxAttempts, was the
\* first to find the branch ready, and the test passed.
C9_Witness == firstReady = maxAttempts /\ pollPc = "passed"

====
